---- MODULE Spec2Model ----
(***************************************************************************)
(* Route-schedule / visit-completion engine of lagoon-cloud.               *)
(* Request handlers of server/server.js run concurrently over the shared   *)
(* PostgreSQL store; every SQL statement of db-postgres.js is one atomic   *)
(* step, the handlers are not wrapped in transactions.                     *)
(***************************************************************************)
EXTENDS Integers, Sequences, FiniteSets, TLC

\* SQL NULL / JavaScript null; ids and user ids start at 1.
NULL == 0

\* ---------------------------------------------------------------- bounds
MaxOps == 3          \* requests started in one behaviour
MaxRouteTasks == 1   \* route_tasks rows created by the task collaborator

\* ---------------------------------------------------------------- domains
Procs == {"p1", "p2"}
Users == {1, 2}
Dates == {<<2024, 2, 29>>, <<2024, 3, 1>>}
Nows == {474765, 474767}   \* 2024-02-28T21:00Z and T23:00Z, hours since the epoch
HostOffsets == {-5, 2}     \* UTC offsets of the hosts the server may run on

\* The requests clients send (req.user.id is the caller).
AddRouteScheduleBodies ==
  {[user_id |-> 1, store_ids |-> <<1>>, day_of_week |-> 4],
   [user_id |-> 1, store_ids |-> <<1, 2>>, day_of_week |-> 4],
   [user_id |-> 1, store_ids |-> <<1>>, day_of_week |-> 5],
   [user_id |-> 2, store_ids |-> <<1>>, day_of_week |-> 4],
   [user_id |-> 2, store_ids |-> <<2>>, day_of_week |-> 4]}
SnapshotBodies ==
  {[user |-> 1, store_id |-> 1, product_id |-> 1, date |-> <<2024, 2, 29>>],
   [user |-> 1, store_id |-> 1, product_id |-> 2, date |-> <<2024, 2, 29>>],
   [user |-> 1, store_id |-> 1, product_id |-> 1, date |-> <<2024, 3, 1>>],
   [user |-> 2, store_id |-> 1, product_id |-> 1, date |-> <<2024, 2, 29>>]}

\* ---------------------------------------------------------------- dates
\* Days since 1970-01-01 of a proleptic Gregorian date (Date.UTC / MakeDay);
\* d may overflow the month, as setUTCDate allows.
DaysFromCivil(y, m, d) ==
  LET yy  == IF m <= 2 THEN y - 1 ELSE y
      era == yy \div 400
      yoe == yy - era * 400
      mp  == IF m > 2 THEN m - 3 ELSE m + 9
      doy == (153 * mp + 2) \div 5 + d - 1
      doe == yoe * 365 + yoe \div 4 - yoe \div 100 + doy
  IN  era * 146097 + doe - 719468

\* getUTCFullYear / getUTCMonth()+1 / getUTCDate of a day number.
CivilFromDays(z0) ==
  LET z   == z0 + 719468
      era == z \div 146097
      doe == z - era * 146097
      yoe == (doe - doe \div 1460 + doe \div 36524 - doe \div 146096) \div 365
      doy == doe - (365 * yoe + yoe \div 4 - yoe \div 100)
      mp  == (5 * doy + 2) \div 153
      d   == doy - (153 * mp + 2) \div 5 + 1
      m   == IF mp < 10 THEN mp + 3 ELSE mp - 9
      y   == yoe + era * 400 + (IF m <= 2 THEN 1 ELSE 0)
  IN  <<y, m, d>>

\* Instants are hours since the epoch; the Cairo offset is UTC+2.
cairoOffset == 2

\* Date.prototype.getUTCDay: 1970-01-01 was a Thursday (4).
getUTCDay(t) == ((t \div 24) + 4) % 7

\* markVisitCompleteFromSnapshot: new Date(visitDate + 'T12:00:00Z'),
\* shifted by the Cairo offset, then getUTCDay().
dayOfWeekOf(visitDate) ==
  LET dateObj     == DaysFromCivil(visitDate[1], visitDate[2], visitDate[3]) * 24 + 12
      dateInCairo == dateObj + cairoOffset
  IN  getUTCDay(dateInCairo)

\* ---------------------------------------------------------------- state
VARIABLES
  route_schedules,  \* rows [id, user_id, store_id, day_of_week]
  visit_logs,       \* rows [id, route_schedule_id, store_id, user_id, visit_date, is_completed, completed_at]
  route_tasks,      \* rows [id, route_schedule_id, task_id, scheduled_date, store_id, user_id, is_completed, completed_by_snapshot_id]
  tasks,            \* rows [id, status]
  stock_snapshot,   \* rows [id, store_id, product_id, date, user_id]
  serial,           \* next value of each table's SERIAL id
  pc,               \* per request handler: the statement it is about to run
  req,              \* per request handler: the request being served
  loc,              \* per request handler: local variables
  res,              \* per request handler: the JSON response sent
  nops,             \* requests started so far
  pool,             \* Database.pool: NULL or the n-th Pool object created
  initPromise,      \* Database.initPromise: "null" or the state of the promise
  doInit,           \* the activation of _doInitialize: [pc, retries]
  pg                \* the PostgreSQL server: [schema, users]

vars == <<route_schedules, visit_logs, route_tasks, tasks, stock_snapshot,
          serial, pc, req, loc, res, nops, pool, initPromise, doInit, pg>>

\* The Database object and the server it connects to.
conn == <<pool, initPromise, doInit, pg>>

\* let retries = 5 in _doInitialize; let retries = 3 in query.
ConnectRetries == 5
QueryRetries == 3

\* startServer() awaited db.initialize() before app.listen(): the pool is
\* connected, the schema exists and the super admin is seeded.
Started ==
  /\ pool = 1
  /\ initPromise = "fulfilled"
  /\ doInit = [pc |-> "done", retries |-> ConnectRetries]
  /\ pg = [schema |-> TRUE, users |-> 1]

db == <<route_schedules, visit_logs, route_tasks, tasks, stock_snapshot, serial>>

NoReq == [op |-> "none", n |-> 0]
NoLoc == [rows |-> <<>>, i |-> 0, rows2 |-> <<>>, j |-> 0, found |-> NULL,
          store_id |-> NULL, sid |-> NULL, snapId |-> NULL, touched |-> {},
          was |-> 0, mark |-> "none"]
NoRes == [pending |-> TRUE]

Init ==
  /\ route_schedules = {}
  /\ visit_logs = {}
  /\ route_tasks = {}
  /\ tasks = {}
  /\ stock_snapshot = {}
  /\ serial = [rs |-> 1, vl |-> 1, rt |-> 1, task |-> 1, snap |-> 1]
  /\ pc = [p \in Procs |-> "idle"]
  /\ req = [p \in Procs |-> NoReq]
  /\ loc = [p \in Procs |-> NoLoc]
  /\ res = [p \in Procs |-> NoRes]
  /\ nops = 0
  /\ Started

\* ---------------------------------------------------------------- SQL helpers
\* All enumerations of a finite set: a SELECT without ORDER BY may return
\* its rows in any order.
RECURSIVE SeqsOf(_)
SeqsOf(S) ==
  IF S = {} THEN {<<>>}
  ELSE UNION {{<<x>> \o s : s \in SeqsOf(S \ {x})} : x \in S}

\* visit_logs: UNIQUE(route_schedule_id, visit_date) and
\* route_schedule_id REFERENCES route_schedules(id).
\* visit_logs without its UNIQUE constraint.
VisitLogKeyNotChecked(sid, date) == TRUE

VisitLogKeyFree(sid, date) ==
  ~\E v \in visit_logs : v.route_schedule_id = sid /\ v.visit_date = date
\* visit_logs without the foreign key to route_schedules.
VisitLogInsertNoForeignKey(sid, date) == VisitLogKeyFree(sid, date)

\* An INSERT INTO visit_logs passes the foreign key and the UNIQUE constraint.
VisitLogInsertOk(sid, date) ==
  /\ \E s \in route_schedules : s.id = sid
  /\ VisitLogKeyFree(sid, date)

\* The INSERT leaving is_completed and completed_at at their column defaults.
NewVisitLogDefaults(sid, store, user, date) ==
  [id |-> serial.vl, route_schedule_id |-> sid, store_id |-> store,
   user_id |-> user, visit_date |-> date, is_completed |-> 0,
   completed_at |-> FALSE]

\* INSERT INTO visit_logs (...) VALUES ($1, $2, $3, $4, 1, CURRENT_TIMESTAMP)
NewVisitLog(sid, store, user, date) ==
  [id |-> serial.vl, route_schedule_id |-> sid, store_id |-> store,
   user_id |-> user, visit_date |-> date, is_completed |-> 1,
   completed_at |-> TRUE]

\* DELETE FROM route_schedules WHERE id = sid, with the ON DELETE CASCADE of
\* visit_logs.route_schedule_id and route_tasks.route_schedule_id.
\* visit_logs without ON DELETE CASCADE.
CascadeVisitLogsNone(sid) == visit_logs

CascadeVisitLogs(sid) == {v \in visit_logs : v.route_schedule_id # sid}
CascadeRouteTasks(sid) == {r \in route_tasks : r.route_schedule_id # sid}

\* ---------------------------------------------------------------- handler plumbing
Idle(p) == pc[p] \in {"idle", "done"}

\* A handler is entered: the previous response of this worker is dropped.
Begin(p, r, first) ==
  /\ Idle(p)
  /\ nops < MaxOps
  /\ nops' = nops + 1
  /\ req' = [req EXCEPT ![p] =
               [f \in DOMAIN r \cup {"n"} |-> IF f = "n" THEN nops + 1 ELSE r[f]]]
  /\ loc' = [loc EXCEPT ![p] = NoLoc]
  /\ res' = [res EXCEPT ![p] = NoRes]
  /\ pc' = [pc EXCEPT ![p] = first]
  /\ UNCHANGED conn

\* res.json(...) is sent and the handler ends.
Respond(p, body, l) ==
  /\ pc' = [pc EXCEPT ![p] = "done"]
  /\ res' = [res EXCEPT ![p] = body]
  /\ loc' = [loc EXCEPT ![p] = l]
  /\ UNCHANGED <<req, nops, conn>>

\* The handler moves on to its next statement.
Goto(p, next, l) ==
  /\ pc' = [pc EXCEPT ![p] = next]
  /\ loc' = [loc EXCEPT ![p] = l]
  /\ UNCHANGED <<req, res, nops, conn>>

\* ---------------------------------------------------------------- task collaborator
\* The task subsystem inserts a tasks row and the route_tasks row generated
\* for a schedule and a date; columns take their schema defaults
\* (status 'pending', is_completed 0, completed_by_snapshot_id NULL).
CreateRouteTask ==
  \E s \in route_schedules, d \in Dates :
    /\ serial.rt <= MaxRouteTasks
    /\ tasks' = tasks \cup {[id |-> serial.task, status |-> "pending"]}
    /\ route_tasks' = route_tasks \cup
         {[id |-> serial.rt, route_schedule_id |-> s.id, task_id |-> serial.task,
           scheduled_date |-> d, store_id |-> s.store_id, user_id |-> s.user_id,
           is_completed |-> 0, completed_by_snapshot_id |-> NULL]}
    /\ serial' = [serial EXCEPT !.rt = @ + 1, !.task = @ + 1]
    /\ UNCHANGED <<route_schedules, visit_logs, stock_snapshot,
                   pc, req, loc, res, nops, conn>>

\* ---------------------------------------------------------------- POST /api/route-schedules
StartAddRouteSchedule(p) ==
  \E b \in AddRouteScheduleBodies :
    /\ Begin(p, [op |-> "addRouteSchedule", user_id |-> b.user_id,
                 store_ids |-> b.store_ids, day_of_week |-> b.day_of_week], "ar_sel")
    /\ UNCHANGED db

\* The loop of addRouteSchedule has reached store i+1 (or its end).
AddRouteScheduleNext(p, l) ==
  IF l.i >= Len(req[p].store_ids)
  THEN Respond(p, [success |-> TRUE,
                   data |-> [success |-> TRUE, ids |-> l.rows, count |-> Len(l.rows)]], l)
  ELSE Goto(p, "ar_sel", l)

\* addRouteSchedule without the lookup of an existing template.
AddRouteScheduleSelectNoLookup(p) ==
  /\ pc[p] = "ar_sel"
  /\ Goto(p, "ar_ins", loc[p])
  /\ UNCHANGED db

\* SELECT id FROM route_schedules WHERE user_id, store_id, day_of_week
AddRouteScheduleSelect(p) ==
  /\ pc[p] = "ar_sel"
  /\ LET storeId  == req[p].store_ids[loc[p].i + 1]
         existing == {s \in route_schedules :
                        /\ s.user_id = req[p].user_id
                        /\ s.store_id = storeId
                        /\ s.day_of_week = req[p].day_of_week}
     IN  IF existing = {}
         THEN Goto(p, "ar_ins", loc[p])
         ELSE AddRouteScheduleNext(p, [loc[p] EXCEPT !.i = @ + 1])
  /\ UNCHANGED db

\* INSERT INTO route_schedules ... RETURNING id
AddRouteScheduleInsert(p) ==
  /\ pc[p] = "ar_ins"
  /\ LET storeId == req[p].store_ids[loc[p].i + 1]
     IN  /\ route_schedules' = route_schedules \cup
              {[id |-> serial.rs, user_id |-> req[p].user_id,
                store_id |-> storeId, day_of_week |-> req[p].day_of_week]}
         /\ serial' = [serial EXCEPT !.rs = @ + 1]
         /\ AddRouteScheduleNext(p, [loc[p] EXCEPT !.i = @ + 1,
                                                  !.rows = Append(@, serial.rs)])
  /\ UNCHANGED <<visit_logs, route_tasks, tasks, stock_snapshot>>

\* ---------------------------------------------------------------- POST /api/route-schedules/:id/toggle-visit
\* Schedule ids a client may send: the existing ones and one that does not
\* exist (yet).
ScheduleIds == {s.id : s \in route_schedules} \cup {serial.rs}

StartToggleVisit(p) ==
  \E id \in ScheduleIds, d \in Dates, s \in route_schedules :
    /\ Begin(p, [op |-> "toggleVisit", id |-> id, visit_date |-> d, user |-> s.user_id],
             "tv_sched")
    /\ UNCHANGED db

\* SELECT * FROM route_schedules WHERE id = $1
ToggleVisitSchedule(p) ==
  /\ pc[p] = "tv_sched"
  /\ LET schedule == {s \in route_schedules : s.id = req[p].id}
     IN  IF schedule = {}
         THEN Respond(p, [success |-> TRUE,
                          data |-> [success |-> FALSE, error |-> "Route schedule not found"]],
                      loc[p])
         ELSE \E s \in schedule : Goto(p, "tv_sel", [loc[p] EXCEPT !.store_id = s.store_id])
  /\ UNCHANGED db

\* SELECT * FROM visit_logs WHERE route_schedule_id = $1 AND visit_date = $2
ToggleVisitSelect(p) ==
  /\ pc[p] = "tv_sel"
  /\ LET existing == {v \in visit_logs : /\ v.route_schedule_id = req[p].id
                                         /\ v.visit_date = req[p].visit_date}
     IN  IF existing = {}
         THEN Goto(p, "tv_write", [loc[p] EXCEPT !.found = NULL])
         ELSE \E v \in existing :
                Goto(p, "tv_write", [loc[p] EXCEPT !.found = v.id, !.was = v.is_completed])
  /\ UNCHANGED db

\* toggleVisitComplete with the un-toggle written as a DELETE of the row.
ToggleVisitUpdateDeletes(id, newStatus) ==
  IF newStatus = 0
  THEN {v \in visit_logs : v.id # id}
  ELSE {IF v.id = id THEN [v EXCEPT !.is_completed = 1, !.completed_at = TRUE] ELSE v :
          v \in visit_logs}

\* The UPDATE of toggleVisitComplete leaving completed_at as it was.
ToggleVisitUpdateKeepsTimestamp(id, newStatus) ==
  {IF v.id = id THEN [v EXCEPT !.is_completed = newStatus] ELSE v : v \in visit_logs}

\* UPDATE visit_logs SET is_completed = $1, completed_at = $2 WHERE id = $3
ToggleVisitUpdate(id, newStatus) ==
  {IF v.id = id
   THEN [v EXCEPT !.is_completed = newStatus, !.completed_at = (newStatus # 0)]
   ELSE v : v \in visit_logs}

\* INSERT INTO visit_logs ... (no row was found) or the UPDATE of the row found
ToggleVisitWrite(p) ==
  /\ pc[p] = "tv_write"
  /\ IF loc[p].found = NULL
     THEN IF VisitLogInsertOk(req[p].id, req[p].visit_date)
          THEN /\ visit_logs' = visit_logs \cup
                    {NewVisitLog(req[p].id, loc[p].store_id, req[p].user, req[p].visit_date)}
               /\ serial' = [serial EXCEPT !.vl = @ + 1]
               /\ Respond(p, [success |-> TRUE,
                              data |-> [success |-> TRUE, isCompleted |-> TRUE]], loc[p])
          ELSE \* the INSERT throws; the route's catch answers with the error
               /\ UNCHANGED <<visit_logs, serial>>
               /\ Respond(p, [success |-> FALSE, error |-> "constraint"], loc[p])
     ELSE LET newStatus == IF loc[p].was # 0 THEN 0 ELSE 1
          IN  /\ visit_logs' = ToggleVisitUpdate(loc[p].found, newStatus)
              /\ UNCHANGED serial
              /\ Respond(p, [success |-> TRUE,
                             data |-> [success |-> TRUE, isCompleted |-> (newStatus = 1)]],
                         loc[p])
  /\ UNCHANGED <<route_schedules, route_tasks, tasks, stock_snapshot>>

\* ---------------------------------------------------------------- DELETE /api/route-schedules/:id
StartDeleteRouteSchedule(p) ==
  \E id \in ScheduleIds :
    /\ Begin(p, [op |-> "deleteRouteSchedule", id |-> id], "dr_sel")
    /\ UNCHANGED db

\* SELECT task_id FROM route_tasks WHERE route_schedule_id = $1
DeleteRouteScheduleSelect(p) ==
  /\ pc[p] = "dr_sel"
  /\ \E rts \in SeqsOf({r \in route_tasks : r.route_schedule_id = req[p].id}) :
       LET routeTasks == [k \in 1..Len(rts) |-> rts[k].task_id]
       IN  Goto(p, IF Len(routeTasks) = 0 THEN "dr_rt" ELSE "dr_task",
                [loc[p] EXCEPT !.rows = routeTasks, !.i = 1])
  /\ UNCHANGED db

\* DELETE FROM tasks WHERE id = rt.task_id (route_tasks.task_id cascades)
DeleteRouteScheduleTask(p) ==
  /\ pc[p] = "dr_task"
  /\ LET taskId == loc[p].rows[loc[p].i]
     IN  /\ tasks' = {t \in tasks : t.id # taskId}
         /\ route_tasks' = {r \in route_tasks : r.task_id # taskId}
  /\ Goto(p, IF loc[p].i >= Len(loc[p].rows) THEN "dr_rt" ELSE "dr_task",
          [loc[p] EXCEPT !.i = @ + 1])
  /\ UNCHANGED <<route_schedules, visit_logs, stock_snapshot, serial>>

\* DELETE FROM route_tasks WHERE route_schedule_id = $1
DeleteRouteScheduleRouteTasks(p) ==
  /\ pc[p] = "dr_rt"
  /\ route_tasks' = {r \in route_tasks : r.route_schedule_id # req[p].id}
  /\ Goto(p, "dr_sched", loc[p])
  /\ UNCHANGED <<route_schedules, visit_logs, tasks, stock_snapshot, serial>>

\* DELETE FROM route_schedules WHERE id = $1 (visit_logs and route_tasks cascade)
DeleteRouteScheduleSchedule(p) ==
  /\ pc[p] = "dr_sched"
  /\ route_schedules' = {s \in route_schedules : s.id # req[p].id}
  /\ visit_logs' = CascadeVisitLogs(req[p].id)
  /\ route_tasks' = CascadeRouteTasks(req[p].id)
  /\ Respond(p, [success |-> TRUE,
                 data |-> [success |-> TRUE, deletedTasks |-> Len(loc[p].rows)]], loc[p])
  /\ UNCHANGED <<tasks, stock_snapshot, serial>>

\* ---------------------------------------------------------------- POST /api/snapshots
StartPostSnapshot(p) ==
  \E b \in SnapshotBodies :
    /\ Begin(p, [op |-> "postSnapshot", user |-> b.user, store_id |-> b.store_id,
                 product_id |-> b.product_id, date |-> b.date], "as_sel")
    /\ UNCHANGED db

\* addSnapshot: SELECT id FROM stock_snapshot WHERE store_id, product_id, date
AddSnapshotSelect(p) ==
  /\ pc[p] = "as_sel"
  /\ LET existing == {x \in stock_snapshot : /\ x.store_id = req[p].store_id
                                             /\ x.product_id = req[p].product_id
                                             /\ x.date = req[p].date}
     IN  IF existing = {}
         THEN Goto(p, "as_write", [loc[p] EXCEPT !.found = NULL])
         ELSE \E x \in existing : Goto(p, "as_write", [loc[p] EXCEPT !.found = x.id])
  /\ UNCHANGED db

\* addSnapshot: UPDATE stock_snapshot SET ..., user_id WHERE store_id,
\* product_id, date (a row was found) or INSERT ... RETURNING id
AddSnapshotWrite(p) ==
  /\ pc[p] = "as_write"
  /\ IF loc[p].found # NULL
     THEN /\ stock_snapshot' =
               {IF /\ x.store_id = req[p].store_id
                   /\ x.product_id = req[p].product_id
                   /\ x.date = req[p].date
                THEN [x EXCEPT !.user_id = req[p].user] ELSE x : x \in stock_snapshot}
          /\ UNCHANGED serial
          /\ Goto(p, "as_routes", [loc[p] EXCEPT !.snapId = loc[p].found])
     ELSE /\ stock_snapshot' = stock_snapshot \cup
               {[id |-> serial.snap, store_id |-> req[p].store_id,
                 product_id |-> req[p].product_id, date |-> req[p].date,
                 user_id |-> req[p].user]}
          /\ serial' = [serial EXCEPT !.snap = @ + 1]
          /\ Goto(p, "as_routes", [loc[p] EXCEPT !.snapId = serial.snap])
  /\ UNCHANGED <<route_schedules, visit_logs, route_tasks, tasks>>

\* addSnapshot: SELECT id, user_id FROM route_schedules WHERE user_id = $1
\* AND store_id = $2
AddSnapshotRoutesOf(user, store) ==
  {s \in route_schedules : s.user_id = user /\ s.store_id = store}

AddSnapshotRoutes(p) ==
  /\ pc[p] = "as_routes"
  /\ \E routes \in SeqsOf({s.id : s \in AddSnapshotRoutesOf(req[p].user, req[p].store_id)}) :
       Goto(p, IF Len(routes) = 0 THEN "mv_sel" ELSE "as_vl_sel",
            [loc[p] EXCEPT !.rows = routes, !.i = 1])
  /\ UNCHANGED db

\* addSnapshot, first loop over routes: the next route, or on to the second loop.
AddSnapshotVisitLogNext(p, l) ==
  IF l.i >= Len(l.rows)
  THEN Goto(p, "as_rt_sel", [l EXCEPT !.i = 1])
  ELSE Goto(p, "as_vl_sel", [l EXCEPT !.i = @ + 1])

\* addSnapshot: SELECT id, is_completed FROM visit_logs WHERE
\* route_schedule_id = route.id AND visit_date = data.date
AddSnapshotVisitLogSelect(p) ==
  /\ pc[p] = "as_vl_sel"
  /\ LET route       == loc[p].rows[loc[p].i]
         existingLog == {v \in visit_logs : /\ v.route_schedule_id = route
                                            /\ v.visit_date = req[p].date}
     IN  IF existingLog = {}
         THEN Goto(p, "as_vl_write", [loc[p] EXCEPT !.found = NULL])
         ELSE \E v \in existingLog :
                IF v.is_completed # 1
                THEN Goto(p, "as_vl_write", [loc[p] EXCEPT !.found = v.id])
                ELSE AddSnapshotVisitLogNext(p, loc[p])
  /\ UNCHANGED db

\* addSnapshot: INSERT INTO visit_logs ... (no log found) or UPDATE visit_logs
\* SET is_completed = 1 WHERE id = existingLog[0].id. A throwing INSERT leaves
\* the try block: the catch logs it and addSnapshot returns.
AddSnapshotVisitLogWrite(p) ==
  /\ pc[p] = "as_vl_write"
  /\ LET route == loc[p].rows[loc[p].i]
     IN  IF loc[p].found = NULL
         THEN IF VisitLogInsertOk(route, req[p].date)
              THEN /\ visit_logs' = visit_logs \cup
                        {NewVisitLog(route, req[p].store_id, req[p].user, req[p].date)}
                   /\ serial' = [serial EXCEPT !.vl = @ + 1]
                   /\ AddSnapshotVisitLogNext(p, loc[p])
              ELSE /\ UNCHANGED <<visit_logs, serial>>
                   /\ Goto(p, "mv_sel", loc[p])
         ELSE /\ visit_logs' =
                   {IF v.id = loc[p].found
                    THEN [v EXCEPT !.is_completed = 1, !.completed_at = TRUE]
                    ELSE v : v \in visit_logs}
              /\ UNCHANGED serial
              /\ AddSnapshotVisitLogNext(p, loc[p])
  /\ UNCHANGED <<route_schedules, route_tasks, tasks, stock_snapshot>>

\* addSnapshot, second loop over routes: the next route, or addSnapshot returns.
AddSnapshotRouteTaskNextRoute(p, l) ==
  IF l.i >= Len(l.rows)
  THEN Goto(p, "mv_sel", l)
  ELSE Goto(p, "as_rt_sel", [l EXCEPT !.i = @ + 1])

\* The propagation finding no route task.
AddSnapshotRouteTasksNone(route, date, user) == {}

\* addSnapshot: the route_tasks the propagation selects for a route:
\* SELECT id, task_id FROM route_tasks WHERE route_schedule_id = $1 AND
\* scheduled_date = $2 AND user_id = $3
AddSnapshotRouteTasksOf(route, date, user) ==
  {r \in route_tasks : /\ r.route_schedule_id = route
                       /\ r.scheduled_date = date
                       /\ r.user_id = user}

AddSnapshotRouteTaskSelect(p) ==
  /\ pc[p] = "as_rt_sel"
  /\ \E routeTasks \in SeqsOf({[id |-> r.id, task_id |-> r.task_id] :
                               r \in AddSnapshotRouteTasksOf(loc[p].rows[loc[p].i],
                                                             req[p].date, req[p].user)}) :
       IF Len(routeTasks) = 0
       THEN AddSnapshotRouteTaskNextRoute(p, loc[p])
       ELSE Goto(p, "as_rt_upd", [loc[p] EXCEPT !.rows2 = routeTasks, !.j = 1])
  /\ UNCHANGED db

\* The UPDATE with completed_by_snapshot_id not checked against stock_snapshot.
AddSnapshotRouteTaskUpdateNoForeignKey(p) ==
  /\ pc[p] = "as_rt_upd"
  /\ route_tasks' =
       {IF r.id = loc[p].rows2[loc[p].j].id
        THEN [r EXCEPT !.is_completed = 1,
                       !.completed_by_snapshot_id = loc[p].snapId]
        ELSE r : r \in route_tasks}
  /\ Goto(p, "as_task_upd", loc[p])
  /\ UNCHANGED <<route_schedules, visit_logs, tasks, stock_snapshot, serial>>

\* addSnapshot: UPDATE route_tasks SET is_completed = 1,
\* completed_by_snapshot_id = snapshotId WHERE id = routeTask.id.
\* completed_by_snapshot_id REFERENCES stock_snapshot(id): the UPDATE throws
\* when it hits a row and the snapshot is gone.
AddSnapshotRouteTaskUpdate(p) ==
  /\ pc[p] = "as_rt_upd"
  /\ LET routeTask == loc[p].rows2[loc[p].j]
         hit       == \E r \in route_tasks : r.id = routeTask.id
         fkOk      == \E x \in stock_snapshot : x.id = loc[p].snapId
     IN  IF hit /\ ~fkOk
         THEN /\ UNCHANGED route_tasks
              /\ Goto(p, "mv_sel", loc[p])
         ELSE /\ route_tasks' =
                   {IF r.id = routeTask.id
                    THEN [r EXCEPT !.is_completed = 1,
                                   !.completed_by_snapshot_id = loc[p].snapId]
                    ELSE r : r \in route_tasks}
              /\ Goto(p, "as_task_upd", loc[p])
  /\ UNCHANGED <<route_schedules, visit_logs, tasks, stock_snapshot, serial>>

\* addSnapshot: UPDATE tasks SET status = 'completed' WHERE id = routeTask.task_id
AddSnapshotTaskUpdate(p) ==
  /\ pc[p] = "as_task_upd"
  /\ LET routeTask == loc[p].rows2[loc[p].j]
         hit       == {t.id : t \in {t \in tasks : t.id = routeTask.task_id}}
         l         == [loc[p] EXCEPT !.touched = @ \cup hit]
     IN  /\ tasks' = {IF t.id = routeTask.task_id
                      THEN [t EXCEPT !.status = "completed"] ELSE t : t \in tasks}
         /\ IF l.j >= Len(l.rows2)
            THEN AddSnapshotRouteTaskNextRoute(p, l)
            ELSE Goto(p, "as_rt_upd", [l EXCEPT !.j = @ + 1])
  /\ UNCHANGED <<route_schedules, visit_logs, route_tasks, stock_snapshot, serial>>

\* markVisitCompleteFromSnapshot: SELECT id, store_id FROM route_schedules
\* WHERE user_id = $1 AND store_id = $2 AND day_of_week = $3
MarkVisitScheduleOf(user, store, visitDate) ==
  {s \in route_schedules : /\ s.user_id = user
                           /\ s.store_id = store
                           /\ s.day_of_week = dayOfWeekOf(visitDate)}

MarkVisitSelect(p) ==
  /\ pc[p] = "mv_sel"
  /\ LET schedule == MarkVisitScheduleOf(req[p].user, req[p].store_id, req[p].date)
     IN  IF schedule = {}
         THEN Respond(p, [success |-> TRUE, data |-> [success |-> TRUE]],
                      [loc[p] EXCEPT !.mark = "noSchedule"])
         ELSE \E s \in schedule : Goto(p, "mv_del", [loc[p] EXCEPT !.sid = s.id])
  /\ UNCHANGED db

\* markVisitCompleteFromSnapshot: DELETE FROM visit_logs WHERE
\* route_schedule_id = $1 AND visit_date = $2
MarkVisitDelete(p) ==
  /\ pc[p] = "mv_del"
  /\ visit_logs' = {v \in visit_logs : ~(/\ v.route_schedule_id = loc[p].sid
                                         /\ v.visit_date = req[p].date)}
  /\ Goto(p, "mv_ins", loc[p])
  /\ UNCHANGED <<route_schedules, route_tasks, tasks, stock_snapshot, serial>>

\* markVisitCompleteFromSnapshot re-inserting the row without marking it.
MarkVisitInsertIncomplete(p) ==
  /\ pc[p] = "mv_ins"
  /\ visit_logs' = visit_logs \cup
       {NewVisitLogDefaults(loc[p].sid, req[p].store_id, req[p].user, req[p].date)}
  /\ serial' = [serial EXCEPT !.vl = @ + 1]
  /\ Respond(p, [success |-> TRUE, data |-> [success |-> TRUE]],
             [loc[p] EXCEPT !.mark = "isCompleted"])
  /\ UNCHANGED <<route_schedules, route_tasks, tasks, stock_snapshot>>

\* markVisitCompleteFromSnapshot: INSERT INTO visit_logs ... is_completed 1.
\* A throwing INSERT reaches the catch of the route.
MarkVisitInsert(p) ==
  /\ pc[p] = "mv_ins"
  /\ IF VisitLogInsertOk(loc[p].sid, req[p].date)
     THEN /\ visit_logs' = visit_logs \cup
               {NewVisitLog(loc[p].sid, req[p].store_id, req[p].user, req[p].date)}
          /\ serial' = [serial EXCEPT !.vl = @ + 1]
          /\ Respond(p, [success |-> TRUE, data |-> [success |-> TRUE]],
                     [loc[p] EXCEPT !.mark = "isCompleted"])
     ELSE /\ UNCHANGED <<visit_logs, serial>>
          /\ Respond(p, [success |-> FALSE, error |-> "constraint"], loc[p])
  /\ UNCHANGED <<route_schedules, route_tasks, tasks, stock_snapshot>>

\* ---------------------------------------------------------------- DELETE /api/snapshots/:id
StartDeleteSnapshot(p) ==
  \E x \in stock_snapshot, canDelete \in BOOLEAN :
    /\ Begin(p, [op |-> "deleteSnapshot", id |-> x.id, canDelete |-> canDelete], "ds_perm")
    /\ UNCHANGED db

\* hasPermission(req.user.id, 'snapshots.delete')
DeleteSnapshotPermission(p) ==
  /\ pc[p] = "ds_perm"
  /\ IF req[p].canDelete
     THEN Goto(p, "ds_upd", loc[p])
     ELSE Respond(p, [success |-> FALSE, error |-> "forbidden"], loc[p])
  /\ UNCHANGED db

\* deleteSnapshot: UPDATE route_tasks SET is_completed = 0,
\* completed_by_snapshot_id = NULL WHERE completed_by_snapshot_id = $1
\* The reversal clearing the link only.
DeleteSnapshotUnlinkOnly(r, id) ==
  IF r.completed_by_snapshot_id = id
  THEN [r EXCEPT !.completed_by_snapshot_id = NULL]
  ELSE r

DeleteSnapshotUnlink(r, id) ==
  IF r.completed_by_snapshot_id = id
  THEN [r EXCEPT !.is_completed = 0, !.completed_by_snapshot_id = NULL]
  ELSE r

DeleteSnapshotUpdate(p) ==
  /\ pc[p] = "ds_upd"
  /\ route_tasks' = {DeleteSnapshotUnlink(r, req[p].id) : r \in route_tasks}
  /\ Goto(p, "ds_del",
          [loc[p] EXCEPT !.touched = {r.id : r \in {r \in route_tasks :
                                         r.completed_by_snapshot_id = req[p].id}}])
  /\ UNCHANGED <<route_schedules, visit_logs, tasks, stock_snapshot, serial>>

\* deleteSnapshot: DELETE FROM stock_snapshot WHERE id = $1; the statement
\* throws while a route_tasks row still references the snapshot.
DeleteSnapshotDelete(p) ==
  /\ pc[p] = "ds_del"
  /\ IF \E r \in route_tasks : r.completed_by_snapshot_id = req[p].id
     THEN /\ UNCHANGED stock_snapshot
          /\ Respond(p, [success |-> FALSE, error |-> "constraint"], loc[p])
     ELSE /\ stock_snapshot' = {x \in stock_snapshot : x.id # req[p].id}
          /\ Respond(p, [success |-> TRUE], loc[p])
  /\ UNCHANGED <<route_schedules, visit_logs, route_tasks, tasks, serial>>

\* ---------------------------------------------------------------- calendar window
\* The stores table (owned by the store CRUD): name is UNIQUE; names are
\* ranked by their collation order.
storeName(id) == IF id = 1 THEN 2 ELSE 1

\* formatDateCairo(d): getUTCFullYear, getUTCMonth()+1, getUTCDate.
formatDateCairo(t) == CivilFromDays(t \div 24)

\* setUTCDate with the day clamped to the last day of the month instead of
\* overflowing into the next one.
setUTCDateClamped(t, date) ==
  LET ymd == CivilFromDays(t \div 24)
      dim == IF ymd[2] = 2
             THEN (IF ymd[1] % 4 = 0 THEN 29 ELSE 28)
             ELSE IF ymd[2] \in {4, 6, 9, 11} THEN 30 ELSE 31
  IN  DaysFromCivil(ymd[1], ymd[2], IF date > dim THEN dim ELSE date) * 24 + (t % 24)

\* d = new Date(nowCairo); d.setUTCDate(nowCairo.getUTCDate() + i)
setUTCDate(t, date) ==
  LET ymd == CivilFromDays(t \div 24)
  IN  DaysFromCivil(ymd[1], ymd[2], date) * 24 + (t % 24)

\* The 7-day rolling window of getRouteSchedules and
\* getUserWeeklyScheduleWithVisits.
dayDates(nowUTC) ==
  LET nowCairo == nowUTC + cairoOffset
  IN  [k \in 1..7 |->
         LET d == setUTCDate(nowCairo, formatDateCairo(nowCairo)[3] + (k - 1))
         IN  [date |-> formatDateCairo(d), dayOfWeek |-> getUTCDay(d)]]

\* String comparison of two YYYY-MM-DD dates (localeCompare < 0).
DateBefore(a, b) ==
  \/ a[1] < b[1]
  \/ a[1] = b[1] /\ a[2] < b[2]
  \/ a[1] = b[1] /\ a[2] = b[2] /\ a[3] < b[3]

\* Array.prototype.sort with the visit_date comparator: a stable sort.
RECURSIVE InsertByDate(_, _)
InsertByDate(sorted, row) ==
  IF sorted = <<>> THEN <<row>>
  ELSE IF DateBefore(row.visit_date, sorted[Len(sorted)].visit_date)
       THEN Append(InsertByDate(SubSeq(sorted, 1, Len(sorted) - 1), row), sorted[Len(sorted)])
       ELSE Append(sorted, row)

RECURSIVE SortByVisitDate(_)
SortByVisitDate(rows) ==
  IF rows = <<>> THEN <<>>
  ELSE InsertByDate(SortByVisitDate(SubSeq(rows, 1, Len(rows) - 1)), rows[Len(rows)])

\* node-postgres hands a DATE column over as a Date at local midnight; the
\* read paths format it back with the local getters.
PgDate(date, tz) == DaysFromCivil(date[1], date[2], date[3]) * 24 - tz
FormatLocalDate(t, tz) == CivilFromDays((t + tz) \div 24)

\* ORDER BY rs.user_id, rs.day_of_week, s.name
ScheduleOrderKey(s) == <<s.user_id, s.day_of_week, storeName(s.store_id)>>
KeyLeq(a, b) ==
  \/ a[1] < b[1]
  \/ a[1] = b[1] /\ a[2] < b[2]
  \/ a[1] = b[1] /\ a[2] = b[2] /\ a[3] <= b[3]
OrderedSchedules(S) ==
  {q \in SeqsOf(S) : \A k \in 1..(Len(q) - 1) :
                       KeyLeq(ScheduleOrderKey(q[k]), ScheduleOrderKey(q[k + 1]))}

\* The day filter left out: every schedule on every day of the window.
MatchingSchedulesAll(schedules, dayInfo) == schedules

\* The rows one day of the window contributes: schedules.filter(s =>
\* s.day_of_week === dayInfo.dayOfWeek), in query order.
RECURSIVE MatchingSchedules(_, _)
MatchingSchedules(schedules, dayInfo) ==
  IF schedules = <<>> THEN <<>>
  ELSE LET rest == MatchingSchedules(Tail(schedules), dayInfo)
       IN  IF Head(schedules).day_of_week = dayInfo.dayOfWeek
           THEN <<Head(schedules)>> \o rest
           ELSE rest

\* for (const dayInfo of dayDates) for (const schedule of matchingSchedules):
\* the (schedule, day) pairs in the order they are pushed.
RECURSIVE MatchingPairs(_, _, _)
MatchingPairs(schedules, days, k) ==
  IF k > Len(days) THEN <<>>
  ELSE LET m == MatchingSchedules(schedules, days[k])
       IN  [n \in 1..Len(m) |-> [schedule |-> m[n], date |-> days[k].date]]
           \o MatchingPairs(schedules, days, k + 1)

\* result.push({...schedule, is_completed, visit_date: dayInfo.date}), with
\* completed[n] the is_completed looked up in the map for the n-th pair.
BuildResult(pairs, completed) ==
  [n \in 1..Len(pairs) |->
     [id |-> pairs[n].schedule.id, user_id |-> pairs[n].schedule.user_id,
      store_id |-> pairs[n].schedule.store_id,
      day_of_week |-> pairs[n].schedule.day_of_week,
      is_completed |-> completed[n],
      visit_date |-> pairs[n].date]]

\* ---------------------------------------------------------------- GET /api/route-schedules
StartGetRouteSchedules(p) ==
  \E u \in Users \cup {NULL}, now \in Nows :
    /\ Begin(p, [op |-> "getRouteSchedules", user_id |-> u, now |-> now], "gr_sched")
    /\ UNCHANGED db

\* SELECT rs.* ... FROM route_schedules rs JOIN users JOIN stores
\* [WHERE rs.user_id = $1] ORDER BY rs.user_id, rs.day_of_week, s.name
GetRouteSchedulesQuery(p) ==
  /\ pc[p] = "gr_sched"
  /\ \E schedules \in OrderedSchedules({s \in route_schedules :
                        req[p].user_id # NULL => s.user_id = req[p].user_id}) :
       IF Len(schedules) = 0
       THEN Respond(p, [success |-> TRUE, data |-> <<>>], loc[p])
       ELSE Goto(p, "gr_snap", [loc[p] EXCEPT !.rows = schedules])
  /\ UNCHANGED db

\* SELECT DISTINCT store_id, date FROM stock_snapshot WHERE store_id = ANY($1)
\* AND date = ANY($2); the result is built from the snapshot map and sorted.
GetRouteSchedulesBuild(p) ==
  /\ pc[p] = "gr_snap"
  /\ \E tz \in HostOffsets :
       LET days        == dayDates(req[p].now)
           storeIds    == {loc[p].rows[k].store_id : k \in 1..Len(loc[p].rows)}
           visitDates  == {days[k].date : k \in 1..7}
           snapshots   == {[store_id |-> x.store_id, date |-> PgDate(x.date, tz)] :
                             x \in {x \in stock_snapshot : /\ x.store_id \in storeIds
                                                          /\ x.date \in visitDates}}
           snapshotMap == {<<x.store_id, FormatLocalDate(x.date, tz)>> : x \in snapshots}
           hasSnapshot(schedule, date) ==
             IF <<schedule.store_id, date>> \in snapshotMap THEN 1 ELSE 0
           pairs       == MatchingPairs(loc[p].rows, days, 1)
           completed   == [n \in 1..Len(pairs) |->
                             hasSnapshot(pairs[n].schedule, pairs[n].date)]
           result      == SortByVisitDate(BuildResult(pairs, completed))
       IN  Respond(p, [success |-> TRUE, data |-> result], loc[p])
  /\ UNCHANGED db

\* ---------------------------------------------------------------- GET /api/route-schedules/my
StartGetMySchedule(p) ==
  \E u \in Users, now \in Nows :
    /\ Begin(p, [op |-> "getUserWeeklyScheduleWithVisits", user_id |-> u, now |-> now],
             "gw_sched")
    /\ UNCHANGED db

\* SELECT rs.* ... FROM route_schedules rs JOIN stores WHERE rs.user_id = $1
\* ORDER BY rs.day_of_week, s.name
GetMyScheduleQuery(p) ==
  /\ pc[p] = "gw_sched"
  /\ \E schedules \in OrderedSchedules({s \in route_schedules :
                                         s.user_id = req[p].user_id}) :
       IF Len(schedules) = 0
       THEN Respond(p, [success |-> TRUE, data |-> <<>>], loc[p])
       ELSE Goto(p, "gw_logs", [loc[p] EXCEPT !.rows = schedules])
  /\ UNCHANGED db

\* SELECT ... FROM visit_logs WHERE route_schedule_id = ANY($1) AND
\* visit_date = ANY($2); the result is built from the visit-log map and sorted.
GetMyScheduleBuild(p) ==
  /\ pc[p] = "gw_logs"
  /\ \E tz \in HostOffsets :
       LET days        == dayDates(req[p].now)
           scheduleIds == {loc[p].rows[k].id : k \in 1..Len(loc[p].rows)}
           visitDates  == {days[k].date : k \in 1..7}
           visitLogs   == {[v EXCEPT !.visit_date = PgDate(v.visit_date, tz)] :
                             v \in {v \in visit_logs : /\ v.route_schedule_id \in scheduleIds
                                                      /\ v.visit_date \in visitDates}}
           logsOf(schedule, date) ==
             {v \in visitLogs : /\ v.route_schedule_id = schedule.id
                                /\ FormatLocalDate(v.visit_date, tz) = date}
           isCompleted(schedule, date) ==
             IF logsOf(schedule, date) = {} THEN 0
             ELSE (CHOOSE v \in logsOf(schedule, date) : TRUE).is_completed
           pairs       == MatchingPairs(loc[p].rows, days, 1)
           completed   == [n \in 1..Len(pairs) |->
                             isCompleted(pairs[n].schedule, pairs[n].date)]
           result      == SortByVisitDate(BuildResult(pairs, completed))
       IN  Respond(p, [success |-> TRUE, data |-> result], loc[p])
  /\ UNCHANGED db

\* ---------------------------------------------------------------- specification
Start(p) ==
  \/ StartAddRouteSchedule(p)
  \/ StartToggleVisit(p)
  \/ StartDeleteRouteSchedule(p)
  \/ StartPostSnapshot(p)
  \/ StartDeleteSnapshot(p)

StartRead(p) ==
  \/ StartGetRouteSchedules(p)
  \/ StartGetMySchedule(p)

Step(p) ==
  \/ AddRouteScheduleSelect(p)
  \/ AddRouteScheduleInsert(p)
  \/ ToggleVisitSchedule(p)
  \/ ToggleVisitSelect(p)
  \/ ToggleVisitWrite(p)
  \/ DeleteRouteScheduleSelect(p)
  \/ DeleteRouteScheduleTask(p)
  \/ DeleteRouteScheduleRouteTasks(p)
  \/ DeleteRouteScheduleSchedule(p)
  \/ AddSnapshotSelect(p)
  \/ AddSnapshotWrite(p)
  \/ AddSnapshotRoutes(p)
  \/ AddSnapshotVisitLogSelect(p)
  \/ AddSnapshotVisitLogWrite(p)
  \/ AddSnapshotRouteTaskSelect(p)
  \/ AddSnapshotRouteTaskUpdate(p)
  \/ AddSnapshotTaskUpdate(p)
  \/ MarkVisitSelect(p)
  \/ MarkVisitDelete(p)
  \/ MarkVisitInsert(p)
  \/ DeleteSnapshotPermission(p)
  \/ DeleteSnapshotUpdate(p)
  \/ DeleteSnapshotDelete(p)

StepRead(p) ==
  \/ GetRouteSchedulesQuery(p)
  \/ GetRouteSchedulesBuild(p)
  \/ GetMyScheduleQuery(p)
  \/ GetMyScheduleBuild(p)

\* The writing requests are served concurrently: a handler may start and run
\* while others are between two of their statements. The read paths change
\* no row and are left to SeqSpec.
Next ==
  \/ \E p \in Procs : Start(p)
  \/ \E p \in Procs : Step(p)
  \/ CreateRouteTask

Spec == Init /\ [][Next]_vars

\* No request is in flight.
Quiescent == \A p \in Procs : Idle(p)

\* Requests are served one after the other: a handler starts only when no
\* other is in flight, the two workers taking turns, so that the two most
\* recent requests and their responses stay visible.
Turn(p) == (p = "p1") <=> (nops % 2 = 0)

SeqNext ==
  \/ \E p \in Procs : Quiescent /\ Turn(p) /\ Start(p)
  \/ \E p \in Procs : Quiescent /\ Turn(p) /\ StartRead(p)
  \/ \E p \in Procs : Step(p)
  \/ \E p \in Procs : StepRead(p)
  \/ Quiescent /\ CreateRouteTask

SeqSpec == Init /\ [][SeqNext]_vars

\* ---------------------------------------------------------------- calendar window alone
\* Instants (hours since the epoch) just before and after midnight in Cairo,
\* on the nine days from each anchor: the windows cross the end of 2023, the
\* leap day of 2024 and the end of February 2023.
WindowAnchors ==
  {[at |-> 473160, date |-> <<2023, 12, 24>>],
   [at |-> 474600, date |-> <<2024, 2, 22>>],
   [at |-> 465840, date |-> <<2023, 2, 22>>]}
WindowNows == {a.at + 24 * k + h : a \in WindowAnchors, k \in 0..8, h \in {21, 22}}

\* nowUTC = new Date() is read and the window is about to be built.
StartDayDates(p) ==
  /\ Idle(p)
  /\ \E now \in WindowNows :
       req' = [req EXCEPT ![p] = [op |-> "dayDates", now |-> now, n |-> 0]]
  /\ pc' = [pc EXCEPT ![p] = "dd_build"]
  /\ res' = [res EXCEPT ![p] = NoRes]
  /\ UNCHANGED <<db, loc, nops, conn>>

\* for (let i = 0; i < 7; i++) dayDates.push({date, dayOfWeek})
BuildDayDates(p) ==
  /\ pc[p] = "dd_build"
  /\ Respond(p, [success |-> TRUE, data |-> dayDates(req[p].now)], loc[p])
  /\ UNCHANGED db

WindowNext == \E p \in Procs : StartDayDates(p) \/ BuildDayDates(p)

WindowSpec == Init /\ [][WindowNext]_vars

\* ---------------------------------------------------------------- a schedule in use
\* The store after addRouteSchedule created template 1 (user 1, store 1,
\* Thursday) and the visit of 2024-02-29 was never toggled, toggled once
\* (completed) or toggled twice (un-toggled).
SeededVisitLogs ==
  {{},
   {[id |-> 1, route_schedule_id |-> 1, store_id |-> 1, user_id |-> 1,
     visit_date |-> <<2024, 2, 29>>, is_completed |-> 1, completed_at |-> TRUE]},
   {[id |-> 1, route_schedule_id |-> 1, store_id |-> 1, user_id |-> 1,
     visit_date |-> <<2024, 2, 29>>, is_completed |-> 0, completed_at |-> FALSE]}}

SeededInit ==
  /\ route_schedules = {[id |-> 1, user_id |-> 1, store_id |-> 1, day_of_week |-> 4]}
  /\ visit_logs \in SeededVisitLogs
  /\ route_tasks = {}
  /\ tasks = {}
  /\ stock_snapshot = {}
  /\ serial = [rs |-> 2, vl |-> Cardinality(visit_logs) + 1, rt |-> 1, task |-> 1,
               snap |-> 1]
  /\ pc = [p \in Procs |-> "idle"]
  /\ req = [p \in Procs |-> NoReq]
  /\ loc = [p \in Procs |-> NoLoc]
  /\ res = [p \in Procs |-> NoRes]
  /\ nops = 0
  /\ Started

SeededSpec == SeededInit /\ [][SeqNext]_vars

\* ---------------------------------------------------------------- Database.initialize / query
\* error.code values of a failed pool.connect() or client.query():
\* connection errors and SQL errors (undefined table, unique violation).
ErrorCodes == {"ECONNREFUSED", "ETIMEDOUT", "57P03", "ECONNRESET", "42P01", "23505"}

\* A retry condition that does not look at error.code.
isAnyError(code) == TRUE

\* error.code === 'ECONNREFUSED' || 'ETIMEDOUT' || '57P03' || 'ECONNRESET'
isConnectionError(code) ==
  code = "ECONNREFUSED" \/ code = "ETIMEDOUT" \/ code = "57P03" \/ code = "ECONNRESET"

\* The local variables of one activation of query().
QueryLoc == [retries |-> QueryRetries, lastError |-> "none", attempts |-> 0]

\* The Database object after its constructor, against a server that was never
\* initialized or one that an earlier process initialized.
BootInit ==
  /\ route_schedules = {}
  /\ visit_logs = {}
  /\ route_tasks = {}
  /\ tasks = {}
  /\ stock_snapshot = {}
  /\ serial = [rs |-> 1, vl |-> 1, rt |-> 1, task |-> 1, snap |-> 1]
  /\ pc = [p \in Procs |-> "idle"]
  /\ req = [p \in Procs |-> NoReq]
  /\ loc = [p \in Procs |-> NoLoc]
  /\ res = [p \in Procs |-> NoRes]
  /\ nops = 0
  /\ pool = NULL
  /\ initPromise = "null"
  /\ doInit = [pc |-> "idle", retries |-> 0]
  /\ pg \in {[schema |-> FALSE, users |-> 0], [schema |-> TRUE, users |-> 1]}

\* A caller enters db.initialize().
StartInitialize(p) ==
  /\ Begin(p, [op |-> "initialize"], "in_call")
  /\ UNCHANGED db

\* A caller enters db.query(sql, params), whose first statement is
\* await this.initialize().
StartQuery(p) ==
  /\ Idle(p)
  /\ nops < MaxOps
  /\ nops' = nops + 1
  /\ req' = [req EXCEPT ![p] = [op |-> "query", n |-> nops + 1]]
  /\ loc' = [loc EXCEPT ![p] = QueryLoc]
  /\ res' = [res EXCEPT ![p] = NoRes]
  /\ pc' = [pc EXCEPT ![p] = "in_call"]
  /\ UNCHANGED <<db, conn>>

\* initialize() has returned normally: a bare call is over, query() goes on
\* to its retry loop.
InitializeReturns(p) ==
  IF req[p].op = "query"
    THEN Goto(p, "q_attempt", loc[p])
    ELSE Respond(p, [success |-> TRUE], loc[p])

\* initialize() up to its first await.  _doInitialize() runs synchronously
\* as far as await this.pool.connect(), after this.pool = new Pool(...).
InitializeCall(p) ==
  /\ pc[p] = "in_call"
  /\ IF pool # NULL
       THEN InitializeReturns(p)
       ELSE IF initPromise # "null"
         THEN Goto(p, "in_await", loc[p])
         ELSE /\ initPromise' = "pending"
              /\ pool' = 1
              /\ doInit' = [pc |-> "connect", retries |-> ConnectRetries]
              /\ pc' = [pc EXCEPT ![p] = "in_start"]
              /\ UNCHANGED <<req, loc, res, nops, pg>>
  /\ UNCHANGED db

\* try { await this.initPromise } catch (error) { this.initPromise = null; throw error }
InitializeSettle(p) ==
  /\ pc[p] \in {"in_start", "in_await"}
  /\ initPromise \in {"fulfilled", "rejected"}
  /\ IF initPromise = "fulfilled"
       THEN InitializeReturns(p)
       ELSE /\ pc' = [pc EXCEPT ![p] = "done"]
            /\ res' = [res EXCEPT ![p] = [success |-> FALSE, error |-> "initialize"]]
            /\ initPromise' = IF pc[p] = "in_start" THEN "null" ELSE initPromise
            /\ UNCHANGED <<req, loc, nops, pool, doInit, pg>>
  /\ UNCHANGED db

\* await this.pool.connect(); await client.query('SELECT NOW()')
DoInitConnect ==
  /\ doInit.pc = "connect"
  /\ \E ok \in BOOLEAN :
       IF ok
         THEN /\ doInit' = [doInit EXCEPT !.pc = "schema"]
              /\ UNCHANGED initPromise
         ELSE IF doInit.retries - 1 > 0
           THEN /\ doInit' = [pc |-> "backoff", retries |-> doInit.retries - 1]
                /\ UNCHANGED initPromise
           ELSE /\ doInit' = [pc |-> "failed", retries |-> 0]
                /\ initPromise' = "rejected"
  /\ UNCHANGED <<db, pc, req, loc, res, nops, pool, pg>>

\* The backoff timer fires and the loop body runs again:
\* this.pool = new Pool(...)
DoInitBackoff ==
  /\ doInit.pc = "backoff"
  /\ pool' = pool + 1
  /\ doInit' = [doInit EXCEPT !.pc = "connect"]
  /\ UNCHANGED <<db, pc, req, loc, res, nops, initPromise, pg>>

\* await this.createSchema()
DoInitSchema ==
  /\ doInit.pc = "schema"
  /\ \E ok \in BOOLEAN :
       IF ok
         THEN /\ pg' = [pg EXCEPT !.schema = TRUE]
              /\ doInit' = [doInit EXCEPT !.pc = "seed"]
              /\ UNCHANGED initPromise
         ELSE /\ doInit' = [doInit EXCEPT !.pc = "failed"]
              /\ initPromise' = "rejected"
              /\ UNCHANGED pg
  /\ UNCHANGED <<db, pc, req, loc, res, nops, pool>>

\* const users = await this.query('SELECT COUNT(*) ...'), whose own
\* initialize() returns at once because this.pool is set;
\* if the count is 0, await this.initializeSuperAdmin().
DoInitSeed ==
  /\ doInit.pc = "seed"
  /\ pool # NULL
  /\ \E ok \in BOOLEAN :
       IF ok
         THEN /\ pg' = [pg EXCEPT !.users = IF @ = 0 THEN 1 ELSE @]
              /\ doInit' = [doInit EXCEPT !.pc = "done"]
              /\ initPromise' = "fulfilled"
         ELSE /\ doInit' = [doInit EXCEPT !.pc = "failed"]
              /\ initPromise' = "rejected"
              /\ UNCHANGED pg
  /\ UNCHANGED <<db, pc, req, loc, res, nops, pool>>

\* What one pool.connect() + client.query() can do: rows, or an error.  A
\* statement on a table that was never created fails with 42P01.
QueryOutcomes ==
  IF pg.schema THEN {"ok"} \cup ErrorCodes ELSE ErrorCodes \ {"23505"}

\* One pass of while (retries > 0) { try {...} catch (error) {...} } and,
\* when the loop ends, throw lastError.
QueryAttempt(p) ==
  /\ pc[p] = "q_attempt"
  /\ loc[p].retries > 0
  /\ \E e \in QueryOutcomes :
       LET l == [loc[p] EXCEPT !.attempts = @ + 1] IN
       IF e = "ok"
         THEN Respond(p, [success |-> TRUE], l)
         ELSE IF isConnectionError(e)
           THEN IF l.retries - 1 > 0
                  THEN Goto(p, "q_attempt",
                            [l EXCEPT !.lastError = e, !.retries = @ - 1])
                  ELSE Respond(p, [success |-> FALSE, error |-> e],
                               [l EXCEPT !.lastError = e, !.retries = @ - 1])
           ELSE Respond(p, [success |-> FALSE, error |-> e],
                        [l EXCEPT !.lastError = e])
  /\ UNCHANGED db

BootNext ==
  \/ \E p \in Procs :
       \/ StartInitialize(p)
       \/ StartQuery(p)
       \/ InitializeCall(p)
       \/ InitializeSettle(p)
       \/ QueryAttempt(p)
  \/ DoInitConnect
  \/ DoInitBackoff
  \/ DoInitSchema
  \/ DoInitSeed

BootSpec == BootInit /\ [][BootNext]_vars

\* ---------------------------------------------------------------- getRouteSchedules, next-occurrence revision
\* Date getters and setters in the host's zone, tz hours east of UTC.
getDay(t, tz) == getUTCDay(t + tz)
getDate(t, tz) == CivilFromDays((t + tz) \div 24)[3]
setDate(t, date, tz) == setUTCDate(t + tz, date) - tz

\* new Date(now.getFullYear(), now.getMonth(), now.getDate()): local midnight.
localMidnight(now, tz) == ((now + tz) \div 24) * 24 - tz

\* d.toISOString().split('T')[0]: the date in UTC.
toISODate(t) == CivilFromDays(t \div 24)

\* The mapping with each date written with the local getters.
dayDatesNextOccurrenceLocal(now, tz) ==
  LET today == localMidnight(now, tz)
  IN  [dayOfWeek \in 0..6 |->
         CivilFromDays((setDate(today,
                                getDate(today, tz)
                                  + ((dayOfWeek - getDay(today, tz) + 7) % 7),
                                tz) + tz) \div 24)]

\* dayDates[dayOfWeek]: the next occurrence of each weekday, today included.
dayDatesNextOccurrence(now, tz) ==
  LET today          == localMidnight(now, tz)
      todayDayOfWeek == getDay(today, tz)
  IN  [dayOfWeek \in 0..6 |->
         LET daysUntil == (dayOfWeek - todayDayOfWeek + 7) % 7
             d         == setDate(today, getDate(today, tz) + daysUntil, tz)
         IN  toISODate(d)]

StartGetRouteSchedulesNext(p) ==
  \E u \in Users \cup {NULL}, now \in Nows, tz \in HostOffsets :
    /\ Begin(p, [op |-> "getRouteSchedulesNext", user_id |-> u, now |-> now,
                 tz |-> tz], "gn_sched")
    /\ UNCHANGED db

\* SELECT rs.* ... FROM route_schedules rs [WHERE rs.user_id = $1]
\* ORDER BY rs.user_id, rs.day_of_week, s.name
GetRouteSchedulesNextQuery(p) ==
  /\ pc[p] = "gn_sched"
  /\ \E schedules \in OrderedSchedules({s \in route_schedules :
                        req[p].user_id # NULL => s.user_id = req[p].user_id}) :
       IF Len(schedules) = 0
       THEN Respond(p, [success |-> TRUE, data |-> <<>>], loc[p])
       ELSE Goto(p, "gn_log", [loc[p] EXCEPT !.rows = schedules, !.i = 1])
  /\ UNCHANGED db

\* SELECT id, is_completed, completed_at FROM visit_logs WHERE
\* route_schedule_id = $1 AND visit_date = $2; result.push({...schedule,
\* is_completed: visitLog[0]?.is_completed || 0, visit_date: dateForDay})
GetRouteSchedulesNextVisitLog(p) ==
  /\ pc[p] = "gn_log"
  /\ LET schedule   == loc[p].rows[loc[p].i]
         dateForDay == dayDatesNextOccurrence(req[p].now, req[p].tz)[schedule.day_of_week]
         logs       == {v \in visit_logs : /\ v.route_schedule_id = schedule.id
                                           /\ v.visit_date = dateForDay}
     IN  \E done \in IF logs = {} THEN {0} ELSE {v.is_completed : v \in logs} :
           LET row == [id |-> schedule.id, user_id |-> schedule.user_id,
                       store_id |-> schedule.store_id,
                       day_of_week |-> schedule.day_of_week,
                       is_completed |-> done, visit_date |-> dateForDay]
               l   == [loc[p] EXCEPT !.rows2 = Append(@, row), !.i = @ + 1]
           IN  IF loc[p].i >= Len(loc[p].rows)
               THEN Respond(p, [success |-> TRUE, data |-> l.rows2], l)
               ELSE Goto(p, "gn_log", l)
  /\ UNCHANGED db

\* The two revisions of the read path side by side, one request at a time,
\* on a store holding one template of any weekday, or one per store.
VariantTemplates ==
  {{[id |-> 1, user_id |-> 1, store_id |-> 1, day_of_week |-> w]} : w \in 0..6}
  \cup {{[id |-> 1, user_id |-> 1, store_id |-> 1, day_of_week |-> 3],
         [id |-> 2, user_id |-> 1, store_id |-> 2, day_of_week |-> 4]}}

VariantInit ==
  /\ route_schedules \in VariantTemplates
  /\ visit_logs = {}
  /\ route_tasks = {}
  /\ tasks = {}
  /\ stock_snapshot = {}
  /\ serial = [rs |-> Cardinality(route_schedules) + 1, vl |-> 1, rt |-> 1,
               task |-> 1, snap |-> 1]
  /\ pc = [p \in Procs |-> "idle"]
  /\ req = [p \in Procs |-> NoReq]
  /\ loc = [p \in Procs |-> NoLoc]
  /\ res = [p \in Procs |-> NoRes]
  /\ nops = 0
  /\ Started

VariantNext ==
  \E p \in Procs :
    \/ Quiescent /\ Turn(p) /\ StartGetRouteSchedules(p)
    \/ GetRouteSchedulesQuery(p)
    \/ GetRouteSchedulesBuild(p)
    \/ Quiescent /\ Turn(p) /\ StartGetRouteSchedulesNext(p)
    \/ GetRouteSchedulesNextQuery(p)
    \/ GetRouteSchedulesNextVisitLog(p)

VariantSpec == VariantInit /\ [][VariantNext]_vars

\* ================================================================ claims
\* Weekday (0 = Sunday) of a calendar date.
WeekdayOf(date) == (DaysFromCivil(date[1], date[2], date[3]) + 4) % 7

\* The templates matching (user, store, dayOfWeek(date)).
TemplatesFor(user, store, date) ==
  {t \in route_schedules : /\ t.user_id = user
                           /\ t.store_id = store
                           /\ t.day_of_week = WeekdayOf(date)}

VisitLogsOf(sid, date) ==
  {v \in visit_logs : v.route_schedule_id = sid /\ v.visit_date = date}

\* q's request was the one served right after p's, and nothing was served since.
LastTwo(p, q) ==
  /\ Quiescent
  /\ p # q
  /\ req[p].n >= 1
  /\ req[q].n = req[p].n + 1
  /\ req[q].n = nops

\* p's request was the last one served.
Last(p) == Quiescent /\ req[p].n >= 1 /\ req[p].n = nops

SameSnapshotVisit(p, q) ==
  /\ req[p].op = "postSnapshot"
  /\ req[q].op = "postSnapshot"
  /\ req[p].user = req[q].user
  /\ req[p].store_id = req[q].store_id
  /\ req[p].date = req[q].date

\* C1: two snapshot submissions in sequence for the same (store, user, date)
\* with a matching template leave exactly one visit log for (schedule, date),
\* and it is completed.
C1_SnapshotTwiceOneCompletedLog ==
  \A p, q \in Procs :
    (LastTwo(p, q) /\ SameSnapshotVisit(p, q)) =>
      \A t \in TemplatesFor(req[q].user, req[q].store_id, req[q].date) :
        /\ Cardinality(VisitLogsOf(t.id, req[q].date)) = 1
        /\ \A v \in VisitLogsOf(t.id, req[q].date) : v.is_completed = 1

C1_Witness ==
  \E p, q \in Procs :
    /\ LastTwo(p, q) /\ SameSnapshotVisit(p, q)
    /\ TemplatesFor(req[q].user, req[q].store_id, req[q].date) # {}
    /\ loc[p].mark = "isCompleted" /\ loc[q].mark = "isCompleted"
    /\ req[p].product_id = req[q].product_id

\* C2: visit_logs never holds two rows with the same
\* (route_schedule_id, visit_date).
C2_OneLogPerScheduleAndDate ==
  \A v, w \in visit_logs :
    (v.route_schedule_id = w.route_schedule_id /\ v.visit_date = w.visit_date) => v = w

\* Two snapshot submissions for the same (store, user, date) raced and one of
\* them ran into the key the other had inserted.
C2_Witness ==
  \E p, q \in Procs :
    /\ p # q /\ pc[p] = "done" /\ pc[q] = "done"
    /\ SameSnapshotVisit(p, q)
    /\ res[p].success = TRUE /\ loc[p].mark = "isCompleted"
    /\ res[q].success = FALSE
    /\ VisitLogsOf(loc[p].sid, req[p].date) # {}

\* C3: once deleteSnapshot(s) has completed, no route task references s, and
\* the route tasks that pointed to s are not completed and carry no link.
C3_DeleteSnapshotUnlinks ==
  \A p \in Procs :
    (Last(p) /\ req[p].op = "deleteSnapshot" /\ res[p].success = TRUE) =>
      \A r \in route_tasks :
        /\ r.completed_by_snapshot_id # req[p].id
        /\ r.id \in loc[p].touched =>
             (r.is_completed = 0 /\ r.completed_by_snapshot_id = NULL)

C3_Witness ==
  \E p \in Procs :
    /\ Last(p) /\ req[p].op = "deleteSnapshot" /\ res[p].success = TRUE
    /\ \E r \in route_tasks : r.id \in loc[p].touched

\* q deleted the snapshot that p's submission had recorded.
SnapshotThenDelete(p, q) ==
  /\ LastTwo(p, q)
  /\ req[p].op = "postSnapshot"
  /\ req[q].op = "deleteSnapshot"
  /\ req[q].id = loc[p].snapId
  /\ res[q].success = TRUE

\* C4: after the snapshot that marked a visit log complete is deleted, the
\* visit log for (schedule, date) is no longer completed.
C4_VisitLogRevertsOnDelete ==
  \A p, q \in Procs :
    (SnapshotThenDelete(p, q) /\ loc[p].mark = "isCompleted") =>
      \A v \in VisitLogsOf(loc[p].sid, req[p].date) : v.is_completed = 0

\* C5: after the snapshot that set a task to status completed is deleted,
\* the task no longer has status completed.
C5_TaskRevertsOnDelete ==
  \A p, q \in Procs :
    SnapshotThenDelete(p, q) =>
      \A t \in tasks : t.id \in loc[p].touched => t.status # "completed"

PostSnapshotPcs ==
  {"as_sel", "as_write", "as_routes", "as_vl_sel", "as_vl_write", "as_rt_sel",
   "as_rt_upd", "as_task_upd", "mv_sel", "mv_del", "mv_ins"}

\* C6: a snapshot submission for which no template matches
\* (user, store, dayOfWeek(date)) succeeds and creates or changes no visit log.
C6_UnscheduledSnapshotNoVisitLog ==
  [][\A p \in Procs :
       (/\ pc[p] \in PostSnapshotPcs
        /\ TemplatesFor(req[p].user, req[p].store_id, req[p].date) = {})
       => /\ visit_logs' = visit_logs
          /\ pc'[p] = "done" => res'[p].success = TRUE]_vars

\* The two workers have both finished a toggle of the same (schedule, date)
\* and both found the schedule.
TwoToggles(p, q) ==
  /\ p # q /\ pc[p] = "done" /\ pc[q] = "done"
  /\ req[p].op = "toggleVisit" /\ req[q].op = "toggleVisit"
  /\ req[p].id = req[q].id /\ req[p].visit_date = req[q].visit_date
  /\ loc[p].store_id # NULL /\ loc[q].store_id # NULL

\* C7: two toggles of the same (schedule, date), however they interleave, end
\* with exactly one visit log for the key, completed or not completed as one
\* or two toggles leave it.
C7_TogglesLeaveOneLog ==
  \A p, q \in Procs :
    TwoToggles(p, q) =>
      /\ Cardinality(VisitLogsOf(req[p].id, req[p].visit_date)) = 1
      /\ \A v \in VisitLogsOf(req[p].id, req[p].visit_date) :
           /\ v.is_completed \in {0, 1}
           /\ v.completed_at <=> (v.is_completed = 1)

\* The two toggles raced: both found no row and one INSERT hit the key of
\* the other.
C7_Witness ==
  \E p, q \in Procs :
    /\ TwoToggles(p, q)
    /\ res[p].success = TRUE
    /\ res[q].success = FALSE
    /\ loc[p].found = NULL /\ loc[q].found = NULL

\* C8: after deleteRouteSchedule(id) has completed successfully the template,
\* its visit logs, its route tasks and the tasks they pointed to are gone, and
\* deletedTasks is the number of route tasks that were tied to the schedule.
C8_Deleted(p) ==
  (Last(p) /\ req[p].op = "deleteRouteSchedule"
           /\ res[p].success = TRUE /\ res[p].data.success = TRUE) =>
    /\ ~\E t \in route_schedules : t.id = req[p].id
    /\ ~\E v \in visit_logs : v.route_schedule_id = req[p].id
    /\ ~\E r \in route_tasks : r.route_schedule_id = req[p].id
    /\ \A k \in 1..Len(loc[p].rows) : ~\E t \in tasks : t.id = loc[p].rows[k]
    /\ res[p].data.deletedTasks = Len(loc[p].rows)

C8_Selected(p) ==
  (pc[p] = "dr_sel" /\ pc'[p] # "dr_sel") =>
    /\ Len(loc'[p].rows) =
         Cardinality({r \in route_tasks : r.route_schedule_id = req[p].id})
    /\ {loc'[p].rows[k] : k \in 1..Len(loc'[p].rows)} =
         {r.task_id : r \in {r \in route_tasks : r.route_schedule_id = req[p].id}}

C8_DeleteScheduleCascades ==
  /\ [](\A p \in Procs : C8_Deleted(p))
  /\ [][\A p \in Procs : C8_Selected(p)]_vars

C8_Witness ==
  \E p \in Procs :
    /\ Last(p) /\ req[p].op = "deleteRouteSchedule" /\ res[p].success = TRUE
    /\ res[p].data.deletedTasks = 1
    /\ serial.vl > 1

\* C9: deleteRouteSchedule removes the template and its dependent rows in one
\* atomic step: while the template is still there, none of the tasks of its
\* route tasks has been removed by the request.
C9_DeleteScheduleAtomic ==
  \A p \in Procs :
    (req[p].op = "deleteRouteSchedule" /\ pc[p] \in {"dr_task", "dr_rt", "dr_sched"}) =>
      ((\E t \in route_schedules : t.id = req[p].id) =>
         /\ \A k \in 1..Len(loc[p].rows) : \E t \in tasks : t.id = loc[p].rows[k]
         /\ Len(loc[p].rows) > 0 => \E r \in route_tasks : r.route_schedule_id = req[p].id)

\* The 7 calendar days from today's date in the business timezone.
WindowDays(nowUTC) ==
  {[date |-> CivilFromDays(n), dayOfWeek |-> (n + 4) % 7] :
     n \in ((nowUTC + 2) \div 24)..(((nowUTC + 2) \div 24) + 6)}

Reads == {"getRouteSchedules", "getUserWeeklyScheduleWithVisits"}

InScope(r) ==
  {t \in route_schedules : r.user_id # NULL => t.user_id = r.user_id}

\* C10: the projection of a read path holds exactly one row for every
\* template in scope and every day of the window on the template's weekday,
\* and no other row.
C10_ProjectionComplete ==
  \A p \in Procs :
    (Last(p) /\ req[p].op \in Reads /\ res[p].success = TRUE) =>
      LET data     == res[p].data
          expected == {<<t.id, d.date>> :
                         <<t, d>> \in {x \in InScope(req[p]) \X WindowDays(req[p].now) :
                                         x[1].day_of_week = x[2].dayOfWeek}}
      IN  /\ {<<data[k].id, data[k].visit_date>> : k \in 1..Len(data)} = expected
          /\ Len(data) = Cardinality(expected)

C10_Witness ==
  \E p \in Procs :
    /\ Last(p) /\ req[p].op \in Reads /\ res[p].success = TRUE
    /\ \E j, k \in 1..Len(res[p].data) :
         res[p].data[j].visit_date # res[p].data[k].visit_date

\* The calendar, stated without day numbers.
DaysInMonth(y, m) ==
  IF m = 2
  THEN (IF (y % 4 = 0 /\ y % 100 # 0) \/ y % 400 = 0 THEN 29 ELSE 28)
  ELSE IF m \in {4, 6, 9, 11} THEN 30 ELSE 31

NextDay(date) ==
  IF date[3] < DaysInMonth(date[1], date[2]) THEN <<date[1], date[2], date[3] + 1>>
  ELSE IF date[2] < 12 THEN <<date[1], date[2] + 1, 1>>
  ELSE <<date[1] + 1, 1, 1>>

RECURSIVE DaysAfter(_, _)
DaysAfter(date, k) == IF k = 0 THEN date ELSE NextDay(DaysAfter(date, k - 1))

\* The calendar date in UTC+2 of an instant of WindowNows.
TodayInCairo(now) ==
  LET a == CHOOSE a \in WindowAnchors : a.at <= now /\ now < a.at + 24 * 9
  IN  DaysAfter(a.date, (now + 2 - a.at) \div 24)

\* C11: the calendar window of any instant has exactly 7 entries, starts at
\* the calendar date of that instant in UTC+2, and every following date is the
\* calendar day after the previous one, across month ends, year ends and leap
\* days.
C11_WindowSevenConsecutiveDays ==
  \A p \in Procs :
    (pc[p] = "done" /\ req[p].op = "dayDates") =>
      LET w == res[p].data
      IN  /\ Len(w) = 7
          /\ w[1].date = TodayInCairo(req[p].now)
          /\ \A k \in 1..6 : w[k + 1].date = NextDay(w[k].date)

\* A window that runs over the end of a year, and one over a leap day.
C11_Witness ==
  \E p, q \in Procs :
    /\ pc[p] = "done" /\ req[p].op = "dayDates"
    /\ pc[q] = "done" /\ req[q].op = "dayDates"
    /\ \E k \in 1..6 : res[p].data[k].date = <<2023, 12, 31>>
                       /\ res[p].data[k + 1].date = <<2024, 1, 1>>
    /\ \E k \in 1..6 : res[q].data[k].date = <<2024, 2, 29>>
                       /\ res[q].data[k + 1].date = <<2024, 3, 1>>

\* q's toggle repeated p's toggle of an existing schedule.
SameToggle(p, q) ==
  /\ req[p].op = "toggleVisit" /\ req[q].op = "toggleVisit"
  /\ req[p].id = req[q].id
  /\ req[p].visit_date = req[q].visit_date
  /\ req[p].user = req[q].user
  /\ res[p].success = TRUE /\ res[p].data.success = TRUE
  /\ res[q].success = TRUE /\ res[q].data.success = TRUE

\* C12: submitting the same evidence twice in sequence leaves the visit log
\* as submitting it once does, on the toggle path and on the snapshot path:
\* one row, with the is_completed the first submission gave it.
C12_EvidenceRetryIdempotent ==
  \A p, q \in Procs :
    /\ (LastTwo(p, q) /\ SameToggle(p, q)) =>
         /\ Cardinality(VisitLogsOf(req[q].id, req[q].visit_date)) = 1
         /\ \A v \in VisitLogsOf(req[q].id, req[q].visit_date) :
              (v.is_completed = 1) <=> res[p].data.isCompleted
    /\ (LastTwo(p, q) /\ SameSnapshotVisit(p, q) /\ loc[p].mark = "isCompleted") =>
         /\ Cardinality(VisitLogsOf(loc[p].sid, req[q].date)) = 1
         /\ \A v \in VisitLogsOf(loc[p].sid, req[q].date) : v.is_completed = 1

\* The templates with key (user, store, day) among a set of templates.
WithKey(T, user, store, day) ==
  {t \in T : t.user_id = user /\ t.store_id = store /\ t.day_of_week = day}

\* C13: addRouteSchedule inserts a template for exactly the listed stores that
\* had no template for (user, store, day_of_week), skips the others and
\* returns the number inserted; after any sequence of calls there is at most
\* one template per (user_id, store_id, day_of_week).
C13_AddScheduleSkipsDuplicates ==
  /\ \A t, u \in route_schedules :
       (t.user_id = u.user_id /\ t.store_id = u.store_id
          /\ t.day_of_week = u.day_of_week) => t = u
  /\ \A p \in Procs :
       (Last(p) /\ req[p].op = "addRouteSchedule") =>
         LET ids      == res[p].data.ids
             inserted == {t \in route_schedules : \E k \in 1..Len(ids) : ids[k] = t.id}
             before   == route_schedules \ inserted
             listed   == {req[p].store_ids[k] : k \in 1..Len(req[p].store_ids)}
             missing  == {s \in listed :
                            WithKey(before, req[p].user_id, s, req[p].day_of_week) = {}}
         IN  /\ res[p].success = TRUE
             /\ res[p].data.count = Len(ids)
             /\ Cardinality(inserted) = Len(ids)
             /\ Len(ids) = Cardinality(missing)
             /\ \A t \in inserted : /\ t.user_id = req[p].user_id
                                    /\ t.day_of_week = req[p].day_of_week
                                    /\ t.store_id \in missing
             /\ \A s \in missing :
                  Cardinality(WithKey(inserted, req[p].user_id, s, req[p].day_of_week)) = 1

\* A call listing two stores, one of which already had its template.
C13_Witness ==
  \E p \in Procs :
    /\ Last(p) /\ req[p].op = "addRouteSchedule"
    /\ Len(req[p].store_ids) = 2
    /\ res[p].data.count = 1
    /\ Cardinality(route_schedules) = 2

\* C14: toggleVisitComplete on an existing schedule creates the visit log of
\* (schedule, date) as completed and returns isCompleted = true when there was
\* none; otherwise it flips is_completed, sets completed_at when the new value
\* is true and clears it when false, and returns the new value.
C14_ToggleCreatesOrFlips ==
  [][\A p \in Procs :
       (pc[p] = "tv_write" /\ pc'[p] = "done") =>
         LET old == VisitLogsOf(req[p].id, req[p].visit_date)
             new == {v \in visit_logs' : /\ v.route_schedule_id = req[p].id
                                         /\ v.visit_date = req[p].visit_date}
         IN  /\ res'[p].success = TRUE /\ res'[p].data.success = TRUE
             /\ Cardinality(new) = 1
             /\ {v \in visit_logs' : v \notin new} = visit_logs \ old
             /\ \A w \in new :
                  /\ old = {} => w.is_completed = 1
                  /\ \A v \in old : /\ w.id = v.id
                                    /\ w.is_completed = (IF v.is_completed = 1 THEN 0 ELSE 1)
                  /\ w.completed_at <=> (w.is_completed = 1)
                  /\ res'[p].data.isCompleted <=> (w.is_completed = 1)]_vars

\* A toggle created the row, and the next one flipped it back to incomplete.
C14_Witness ==
  \E p, q \in Procs :
    /\ LastTwo(p, q) /\ SameToggle(p, q)
    /\ res[p].data.isCompleted = TRUE
    /\ res[q].data.isCompleted = FALSE
    /\ \E v \in VisitLogsOf(req[q].id, req[q].visit_date) :
         v.is_completed = 0 /\ v.completed_at = FALSE

\* C15: every row of a read path carries the is_completed of the visit log of
\* (schedule id, visit_date) when there is one, and 0 otherwise.
C15_ProjectionReadsVisitLog ==
  \A p \in Procs :
    (Last(p) /\ req[p].op \in Reads /\ res[p].success = TRUE) =>
      \A k \in 1..Len(res[p].data) :
        LET row  == res[p].data[k]
            logs == VisitLogsOf(row.id, row.visit_date)
        IN  /\ logs = {} => row.is_completed = 0
            /\ \A v \in logs : row.is_completed = v.is_completed

\* C16: when a snapshot submission of user U for store P and date D has been
\* served, every route task of the matching schedule with scheduled_date D and
\* user U is completed and linked to that snapshot, and its task has status
\* completed.
C16_SnapshotCompletesRouteTasks ==
  [][\A p \in Procs :
       (req[p].op = "postSnapshot" /\ pc[p] # "done" /\ pc'[p] = "done") =>
         /\ res'[p].success = TRUE
         /\ \E x \in stock_snapshot' : x.id = loc'[p].snapId
         /\ \A r \in route_tasks' :
              (/\ \E t \in TemplatesFor(req[p].user, req[p].store_id, req[p].date) :
                    t.id = r.route_schedule_id
               /\ r.scheduled_date = req[p].date
               /\ r.user_id = req[p].user)
              => /\ r.is_completed = 1
                 /\ r.completed_by_snapshot_id = loc'[p].snapId
                 /\ \A t \in tasks' : t.id = r.task_id => t.status = "completed"]_vars

\* A snapshot submission completed a route task that was pending.
C16_Witness ==
  \E p \in Procs :
    /\ Last(p) /\ req[p].op = "postSnapshot" /\ res[p].success = TRUE
    /\ \E r \in route_tasks :
         /\ r.scheduled_date = req[p].date /\ r.user_id = req[p].user
         /\ \E t \in TemplatesFor(req[p].user, req[p].store_id, req[p].date) :
              t.id = r.route_schedule_id
         /\ r.is_completed = 1 /\ r.completed_by_snapshot_id = loc[p].snapId
         /\ \E t \in tasks : t.id = r.task_id /\ t.status = "completed"

\* C17: when toggleVisitComplete has marked (schedule, date) complete, the
\* route tasks of the same schedule, date and user are completed and their
\* tasks have status completed.
C17_TogglePropagates ==
  [][\A p \in Procs :
       (/\ req[p].op = "toggleVisit" /\ pc[p] # "done" /\ pc'[p] = "done"
        /\ res'[p].success = TRUE /\ res'[p].data.success = TRUE
        /\ res'[p].data.isCompleted = TRUE)
       => \A r \in route_tasks' :
            (/\ r.route_schedule_id = req[p].id
             /\ r.scheduled_date = req[p].visit_date
             /\ r.user_id = req[p].user)
            => /\ r.is_completed = 1
               /\ \A t \in tasks' : t.id = r.task_id => t.status = "completed"]_vars

\* C18: a snapshot submission whose snapshot row has been written is reported
\* as successful, whatever happens to the visit-log, route-task and task
\* updates that follow the write.
C18_PropagationFailureNotReported ==
  \A p \in Procs :
    (req[p].op = "postSnapshot" /\ pc[p] = "done" /\ loc[p].snapId # NULL) =>
      res[p].success = TRUE

\* p deleted a schedule and q toggled a visit of the same schedule; both
\* requests have been answered and the schedule is gone.
DeleteAndToggle(p, q) ==
  /\ p # q /\ pc[p] = "done" /\ pc[q] = "done"
  /\ req[p].op = "deleteRouteSchedule"
  /\ res[p].success = TRUE /\ res[p].data.success = TRUE
  /\ req[q].op = "toggleVisit"
  /\ req[q].id = req[p].id
  /\ ~\E s \in route_schedules : s.id = req[p].id

\* C19: when deleteRouteSchedule(id) and a toggle of the same schedule have
\* both finished, however they interleaved, no visit log references id.
C19_NoDanglingVisitLog ==
  \A p, q \in Procs :
    DeleteAndToggle(p, q) => ~\E v \in visit_logs : v.route_schedule_id = req[p].id

\* The toggle had found the schedule and its INSERT came after the delete.
C19_Witness ==
  \E p, q \in Procs :
    /\ DeleteAndToggle(p, q)
    /\ loc[q].store_id # NULL /\ loc[q].found = NULL
    /\ res[q].success = FALSE

\* p serves a toggle or a delete for a schedule id that has never existed.
OnAbsentSchedule(p) ==
  /\ req[p].op \in {"toggleVisit", "deleteRouteSchedule"}
  /\ req[p].id >= serial.rs

\* C20: for a schedule id that does not exist, toggleVisitComplete and
\* deleteRouteSchedule report a not-found outcome, not success, and change no
\* row of route_schedules, visit_logs, route_tasks or tasks.
C20_AbsentScheduleReported ==
  /\ [](\A p \in Procs :
          (Last(p) /\ OnAbsentSchedule(p)) =>
            ~(res[p].success = TRUE /\ res[p].data.success = TRUE))
  /\ [][\A p \in Procs :
          (OnAbsentSchedule(p) /\ pc[p] # pc'[p] /\ ~Idle(p)) =>
            UNCHANGED <<route_schedules, visit_logs, route_tasks, tasks>>]_vars

\* C21: the projection of a read path is ordered by visit_date ascending
\* and, among rows of the same visit_date, by store name ascending, for one
\* user and for all users.
C21_ProjectionOrdered ==
  \A p \in Procs :
    (Last(p) /\ req[p].op \in Reads /\ res[p].success = TRUE) =>
      \A j, k \in 1..Len(res[p].data) :
        j < k =>
          LET a == res[p].data[j]
              b == res[p].data[k]
          IN  /\ ~DateBefore(b.visit_date, a.visit_date)
              /\ a.visit_date = b.visit_date =>
                   storeName(a.store_id) <= storeName(b.store_id)

\* C22: after a snapshot submission with a matching template has been served,
\* the visit log of (schedule, date) exists and is completed, whatever it was
\* before, a row un-toggled to is_completed = 0 included.
C22_SnapshotOverridesUntoggle ==
  \A p \in Procs :
    (Last(p) /\ req[p].op = "postSnapshot" /\ res[p].success = TRUE) =>
      \A t \in TemplatesFor(req[p].user, req[p].store_id, req[p].date) :
        /\ VisitLogsOf(t.id, req[p].date) # {}
        /\ \A v \in VisitLogsOf(t.id, req[p].date) :
             v.is_completed = 1 /\ v.completed_at = TRUE

\* The first request served was a snapshot submission that found the visit
\* log un-toggled.
C22_Witness ==
  \E p \in Procs :
    /\ Last(p) /\ req[p].op = "postSnapshot" /\ res[p].success = TRUE
    /\ req[p].n = 1
    /\ loc[p].found # NULL
    /\ loc[p].mark = "isCompleted"
    /\ \E v \in VisitLogsOf(loc[p].sid, req[p].date) : v.is_completed = 1

\* C23: initialize() is safe under concurrent callers: no caller's
\* initialize() has returned normally (a bare call answered, or a query() past
\* its await this.initialize()) unless a run of the connection test, schema
\* creation and admin seeding has completed.
C23_InitializeWaitsForRun ==
  \A p \in Procs :
    (\/ pc[p] = "q_attempt"
     \/ pc[p] = "done" /\ req[p].op = "initialize" /\ res[p].success = TRUE
     \/ pc[p] = "done" /\ req[p].op = "query" /\ loc[p].attempts > 0)
      => doInit.pc = "done"

\* C24: once a run of the initialization has failed and the failure has been
\* handled, a call of initialize() starts a fresh run instead of returning.
C24_FailedRunIsRetried ==
  [][\A p \in Procs :
       (/\ pc[p] = "in_call" /\ pc'[p] # "in_call"
        /\ doInit.pc = "failed" /\ initPromise = "null")
         => (doInit'.pc = "connect" /\ pc'[p] = "in_start")]_vars

\* The error codes the retry policy of query() names.
RetriedCodes == {"ECONNREFUSED", "ETIMEDOUT", "ECONNRESET", "57P03"}

\* C26: query() makes at most 3 attempts; another attempt is made only after
\* an error whose code is ECONNREFUSED, ETIMEDOUT, ECONNRESET or 57P03; a
\* query that fails rethrows the last error, after the third attempt if that
\* error is one of the four and at the attempt that raised it otherwise.
C26_QueryRetryPolicy ==
  \A p \in Procs :
    req[p].op = "query" =>
      /\ loc[p].attempts <= 3
      /\ (pc[p] = "q_attempt" /\ loc[p].attempts > 0) =>
           (loc[p].lastError \in RetriedCodes /\ loc[p].attempts < 3)
      /\ (pc[p] = "done" /\ loc[p].attempts > 0 /\ res[p].success = FALSE) =>
           /\ res[p].error = loc[p].lastError
           /\ loc[p].lastError \in RetriedCodes => loc[p].attempts = 3

\* A query gave up after three connection errors.
C26_Witness ==
  \E p \in Procs :
    /\ req[p].op = "query" /\ pc[p] = "done" /\ res[p].success = FALSE
    /\ loc[p].attempts = 3
    /\ res[p].error = "ECONNRESET"

\* C25: the propagation of a snapshot leaves alone every route task that is
\* already completed and linked to an earlier snapshot: the UPDATE of
\* addSnapshot changes no such row.
C25_CompletedRouteTaskKept ==
  [][\A p \in Procs :
       pc[p] = "as_rt_upd" =>
         \A r \in route_tasks :
           (/\ r.is_completed = 1
            /\ r.completed_by_snapshot_id # NULL
            /\ r.completed_by_snapshot_id # loc[p].snapId)
             => r \in route_tasks']_vars

\* Requests p and q were served at the same instant, p by the rolling-window
\* revision and q by the next-occurrence revision, for the same user scope.
SameRead(p, q) ==
  /\ pc[p] = "done" /\ req[p].op = "getRouteSchedules" /\ res[p].success = TRUE
  /\ pc[q] = "done" /\ req[q].op = "getRouteSchedulesNext" /\ res[q].success = TRUE
  /\ req[p].now = req[q].now
  /\ req[p].user_id = req[q].user_id

\* The calendar date in Cairo (UTC+2) at an instant.
CairoToday(now) == CivilFromDays((now + 2) \div 24)

\* Rows of the rolling-window answer dated today, day 0 of its window.
TodayRows(p) ==
  {res[p].data[k] : k \in {k \in 1..Len(res[p].data) :
                             res[p].data[k].visit_date = CairoToday(req[p].now)}}

C28_CompletionFromOwnEvidence ==
  \A p \in Procs :
    (Last(p) /\ req[p].op \in Reads /\ res[p].success = TRUE) =>
      \A k \in 1..Len(res[p].data) :
        LET r == res[p].data[k] IN
        r.is_completed = 1 =>
          \/ \E x \in stock_snapshot : /\ x.user_id = r.user_id
                                       /\ x.store_id = r.store_id
                                       /\ x.date = r.visit_date
          \/ \E v \in visit_logs : /\ v.route_schedule_id = r.id
                                   /\ v.visit_date = r.visit_date
                                   /\ v.is_completed = 1

\* C29: in every state reached through any interleaving of addSnapshot and
\* deleteSnapshot, a route task is completed if and only if it is linked to a
\* snapshot, and every link is the id of an existing stock_snapshot row.
C29_RouteTaskLinkConsistent ==
  \A r \in route_tasks :
    /\ (r.is_completed = 1) <=> (r.completed_by_snapshot_id # NULL)
    /\ r.completed_by_snapshot_id # NULL =>
         \E x \in stock_snapshot : x.id = r.completed_by_snapshot_id

\* A deleteSnapshot has unlinked a route task that an addSnapshot had
\* completed, and the snapshot is gone.
C29_Witness ==
  \E p \in Procs :
    /\ pc[p] = "done" /\ req[p].op = "deleteSnapshot" /\ res[p].success = TRUE
    /\ loc[p].touched # {}
    /\ \A x \in stock_snapshot : x.id # req[p].id
    /\ \E r \in route_tasks : r.id \in loc[p].touched /\ r.is_completed = 0

\* C30: in every reachable state, concurrent addRouteSchedule calls included,
\* route_schedules holds no two rows with the same
\* (user_id, store_id, day_of_week).
C30_TemplateUnique ==
  \A s, t \in route_schedules :
    (/\ s.user_id = t.user_id
     /\ s.store_id = t.store_id
     /\ s.day_of_week = t.day_of_week) => s.id = t.id

====
